---- MODULE Spec2Model ----
(***************************************************************************)
(* Orphaned-upload cleanup subsystem of wizzzey-api: CleanupService        *)
(* (reference scanner, directory listing, orphan resolution, deletion,     *)
(* run-lock, cron scheduler) and the cleanup HTTP controllers.             *)
(***************************************************************************)
EXTENDS Integers, Sequences, FiniteSets, TLC

\* ----------------------------------------------------------------- bounds

\* performCleanup() invocations whose frames are kept at the same time
MaxInvocations == 2

\* reference records held by the database at the same time
MaxRefs == 1

\* cron tasks registered by startScheduler
MaxTasks == 1

\* cron tasks registered through POST /cleanup/scheduler/start
MaxStarts == 2

\* directories in front of the file name of a reference given to the extractor
MaxDepth == 2

\* ---------------------------------------------------------------- strings

\* A stored reference string: whether it starts with 'http', whether
\* new URL() accepts it, and the '/'-separated segments of its path.
Null == "null"

GITKEEP == ".gitkeep"

EmptyString == [http |-> FALSE, parses |-> TRUE, segs |-> <<>>]

FullUrl(name) == [http |-> TRUE, parses |-> TRUE, segs |-> <<"uploads", name>>]

RootRelative(name) == [http |-> FALSE, parses |-> TRUE, segs |-> <<"uploads", name>>]

\* url.startsWith('http'), for a file name
StartsWithHttp(name) == name = "http-banner.png"

\* a bare file name: new URL() rejects it (no scheme) when it is asked
BareName(name) ==
    [http |-> StartsWithHttp(name), parses |-> ~StartsWithHttp(name),
     segs |-> <<name>>]

\* a string that starts with 'http' and that new URL() rejects, such as
\* 'https://my cdn.com/uploads/photo.png', with the segments of the string
\* read as a plain path
Malformed(path, name) ==
    [http |-> TRUE, parses |-> FALSE,
     segs |-> <<"https:", "", "my cdn.com">> \o path \o <<name>>]

\* the string itself, as a Set member: a directory entry name only when the
\* string is a bare filename
RawString(url) ==
    IF Len(url.segs) = 1 /\ ~(url.http /\ url.parses) THEN url.segs[1]
    ELSE "<path>"

\* the percent-encoding new URL() applies to a path segment
PercentEncode(name) == IF name = "my photo.png" THEN "my%20photo.png" ELSE name

\* new URL(url).pathname, as segments
Pathname(url) == [n \in 1..Len(url.segs) |-> PercentEncode(url.segs[n])]

\* path.basename: the last segment, '' when there is none
Basename(segs) == IF segs = <<>> THEN "" ELSE segs[Len(segs)]

ExtractFilenameFromUrl(url) ==
    IF url = EmptyString THEN Null
    ELSE IF url.http /\ ~url.parses THEN Null
    ELSE LET urlPath == IF url.http THEN Pathname(url) ELSE url.segs
         IN  IF Basename(urlPath) = "" THEN Null ELSE Basename(urlPath)

\* ------------------------------------------------------------ collections

\* the collection queries of getReferencedImages, in the order it issues them
Scanned == <<"Product", "Category", "Brand", "AppSettings", "User", "BlogPost">>

\* every place of the database that stores a reference to an uploaded file
DbPool ==
    { [coll |-> "Product",        field |-> "imageUrl",           ref |-> RootRelative("a.jpg")],
      [coll |-> "Category",       field |-> "imageUrl",           ref |-> RootRelative("a.jpg")],
      [coll |-> "Category",       field |-> "image.filename",     ref |-> BareName("a.jpg")],
      [coll |-> "Brand",          field |-> "logo.url",           ref |-> RootRelative("a.jpg")],
      [coll |-> "AppSettings",    field |-> "storeLogo.filename", ref |-> BareName("a.jpg")],
      [coll |-> "User",           field |-> "avatarUrl",          ref |-> FullUrl("a.jpg")],
      [coll |-> "BlogPost",       field |-> "featuredImage",      ref |-> FullUrl("a.jpg")],
      [coll |-> "ProductVariant", field |-> "images.url",         ref |-> RootRelative("a.jpg")],
      [coll |-> "SizeChart",      field |-> "image",              ref |-> RootRelative("a.jpg")] }

\* entries the upload directory can hold, in the order readdir lists them
DirOrder == <<GITKEEP, "a.jpg", "b.jpg">>

DirEntries == {DirOrder[n] : n \in 1..Len(DirOrder)}

\* ------------------------------------------------------------------ state

VARIABLES
    alive,        \* the node process is running
    isRunning,    \* CleanupService.isRunning
    db,           \* reference records of the database
    disk,         \* entries of the uploads directory
    frames,       \* performCleanup() invocations: position and locals
    preview,      \* the getOrphanedFilesPreview request in flight
    previewResp,  \* the last response of the preview endpoint
    tasks,        \* cron's task registry: for each task, whether it runs
    otherTasks,   \* tasks other code of the process put in that registry
    kept,         \* the preview response an administrator kept to compare
    httpResp,     \* the last response the cleanup router sent
    url,          \* the argument of an extractFilenameFromUrl call
    extracted     \* what that call returned

\* what the service itself neither reads nor writes
observers == <<otherTasks, kept, httpResp, url, extracted>>

vars == <<alive, isRunning, db, disk, frames, preview, previewResp, tasks,
          otherTasks, kept, httpResp, url, extracted>>

Invocations == 1..MaxInvocations

IdleFrame ==
    [pc |-> "idle", k |-> 0, referencedImages |-> {}, uploadedFiles |-> <<>>,
     orphanedFiles |-> <<>>, idx |-> 0, deletedCount |-> 0, errors |-> <<>>,
     unlinked |-> {}]

IdlePreview ==
    [pc |-> "idle", k |-> 0, referencedImages |-> {}]

NoResponse == [status |-> 0]

\* no request received yet
NoRequest ==
    [route |-> "none", caller |-> "none", pc |-> "none", status |-> 0, data |-> Null]

\* positions between the taking of the run-lock and the finally block
InPipeline == {"connect", "scan", "readdir", "unlink"}

\* positions of an invocation that has returned
Settled == {"idle", "skipped", "done", "failed"}

Init ==
    /\ alive = TRUE
    /\ isRunning = FALSE
    /\ db \in {d \in SUBSET DbPool : Cardinality(d) <= MaxRefs}
    /\ disk \in {s \in SUBSET DirEntries : GITKEEP \in s}
    /\ frames = [i \in Invocations |-> IdleFrame]
    /\ preview = IdlePreview
    /\ previewResp = NoResponse
    /\ tasks = <<>>
    /\ otherTasks = <<>>
    /\ kept = NoResponse
    /\ httpResp = NoRequest
    /\ url = EmptyString
    /\ extracted = Null

\* ---------------------------------------------------------------- scanner

FieldRefs(d, coll, field) ==
    {r.ref : r \in {x \in d : x.coll = coll /\ x.field = field}}

\* if (x) { filename = extractFilenameFromUrl(x); if (filename) add }
Extracted(refs) ==
    {ExtractFilenameFromUrl(u) : u \in {v \in refs : v # EmptyString}} \ {Null}

\* if (x.filename) add(x.filename)
Unextracted(refs) ==
    {RawString(u) : u \in {v \in refs : v # EmptyString}}

\* the filenames the k-th query of getReferencedImages adds to the set
ScanCollection(d, k) ==
    CASE k = 1 -> Extracted(FieldRefs(d, "Product", "imageUrl"))
                  \cup Extracted(FieldRefs(d, "Product", "media.url"))
      [] k = 2 -> Extracted(FieldRefs(d, "Category", "imageUrl"))
                  \cup Unextracted(FieldRefs(d, "Category", "image.filename"))
                  \cup Extracted(FieldRefs(d, "Category", "media.url"))
      [] k = 3 -> Extracted(FieldRefs(d, "Brand", "logo.url"))
      [] k = 4 -> Unextracted(FieldRefs(d, "AppSettings", "storeLogo.filename"))
                  \cup Unextracted(FieldRefs(d, "AppSettings", "heroImage.filename"))
      [] k = 5 -> Extracted(FieldRefs(d, "User", "avatarUrl"))
      [] k = 6 -> Extracted(FieldRefs(d, "BlogPost", "featuredImage"))
                  \cup Extracted(FieldRefs(d, "BlogPost", "media.url"))

\* fs.readdir(uploadsDir)
Readdir(entries) == SelectSeq(DirOrder, LAMBDA f : f \in entries)

\* the listing without its filter
GetUploadedFilesUnfiltered(files) == files

\* new Set(files.filter(file => file !== '.gitkeep'))
GetUploadedFiles(files) == SelectSeq(files, LAMBDA f : f # GITKEEP)

\* the orphan loop without its test
FindOrphansAll(uploadedFiles, referencedImages) == uploadedFiles

\* the orphan loop with its test inverted
FindOrphansInverted(uploadedFiles, referencedImages) ==
    SelectSeq(uploadedFiles, LAMBDA f : f \in referencedImages)

\* for (file of uploadedFiles) if (!referencedImages.has(file)) add(file)
FindOrphans(uploadedFiles, referencedImages) ==
    SelectSeq(uploadedFiles, LAMBDA f : f \notin referencedImages)

Range(s) == {s[n] : n \in 1..Len(s)}

\* ----------------------------------------------------------- orchestrator

\* the frame a new invocation runs in
FreeFrame == CHOOSE i \in Invocations :
    /\ frames[i].pc \in Settled
    /\ \A j \in Invocations : frames[j].pc \in Settled => i <= j

\* performCleanup() without the run-lock test
PerformCleanupNoLock ==
    /\ \E i \in Invocations : frames[i].pc \in Settled
    /\ isRunning' = TRUE
    /\ frames' = [frames EXCEPT ![FreeFrame] = [IdleFrame EXCEPT !.pc = "connect"]]

\* performCleanup() up to its first await: the run-lock test (the call logs
\* 'already running' and returns when the lock is held), the taking of the
\* lock and the call of connectDB(). The frames of the invocations that
\* returned before are dropped when a run starts.
PerformCleanup ==
    /\ \E i \in Invocations : frames[i].pc \in Settled
    /\ IF isRunning
       THEN /\ frames' = [frames EXCEPT ![FreeFrame] = [IdleFrame EXCEPT !.pc = "skipped"]]
            /\ UNCHANGED isRunning
       ELSE /\ isRunning' = TRUE
            /\ frames' = [i \in Invocations |->
                            IF i = FreeFrame THEN [IdleFrame EXCEPT !.pc = "connect"]
                            ELSE IF frames[i].pc \in Settled THEN IdleFrame
                            ELSE frames[i]]

\* the catch block without a finally
CatchNoFinally(i) ==
    /\ frames' = [frames EXCEPT ![i] = [IdleFrame EXCEPT !.pc = "failed"]]
    /\ UNCHANGED isRunning

\* catch (error) { log } finally { this.isRunning = false }
CatchRethrows(i) ==
    /\ frames' = [frames EXCEPT ![i] = [IdleFrame EXCEPT !.pc = "rejected"]]
    /\ isRunning' = FALSE

CatchFinally(i) ==
    /\ frames' = [frames EXCEPT ![i] = [IdleFrame EXCEPT !.pc = "failed"]]
    /\ isRunning' = FALSE

\* a finally block that hands the lock to an invocation that was skipped
CompleteFinallyRetry(i, f) ==
    IF \E j \in Invocations : frames[j].pc = "skipped"
    THEN LET j == CHOOSE j \in Invocations : frames[j].pc = "skipped"
         IN  /\ frames' = [frames EXCEPT ![i] = [f EXCEPT !.pc = "done"],
                                         ![j] = [IdleFrame EXCEPT !.pc = "connect"]]
             /\ isRunning' = TRUE
    ELSE /\ frames' = [frames EXCEPT ![i] = [f EXCEPT !.pc = "done"]]
         /\ isRunning' = FALSE

\* the end of the try block, then finally { this.isRunning = false }
CompleteKeepsLock(i, f) ==
    /\ frames' = [frames EXCEPT ![i] = [f EXCEPT !.pc = "done"]]
    /\ UNCHANGED isRunning

CompleteFinally(i, f) ==
    /\ frames' = [frames EXCEPT ![i] = [f EXCEPT !.pc = "done"]]
    /\ isRunning' = FALSE

\* await connectDB(): it resolves, or it logs and calls process.exit(1)
ConnectDBReturns(i) ==
    /\ alive
    /\ frames[i].pc = "connect"
    /\ \/ /\ frames' = [frames EXCEPT ![i].pc = "scan", ![i].k = 1]
          /\ UNCHANGED <<alive, isRunning>>
       \/ /\ alive' = FALSE
          /\ UNCHANGED <<frames, isRunning>>
    /\ UNCHANGED <<db, disk, preview, previewResp, tasks>>

\* getReferencedImages with a try/catch around each query: a failed query
\* is logged and the scan goes on
QueryReturnsSwallowed(i) ==
    /\ alive
    /\ frames[i].pc = "scan"
    /\ \E ok \in BOOLEAN :
          frames' = [frames EXCEPT
                ![i].referencedImages =
                    IF ok THEN @ \cup ScanCollection(db, frames[i].k) ELSE @,
                ![i].k = IF @ < Len(Scanned) THEN @ + 1 ELSE 0,
                ![i].pc = IF frames[i].k < Len(Scanned) THEN "scan" ELSE "readdir"]
    /\ UNCHANGED <<alive, isRunning, db, disk, preview, previewResp, tasks>>

\* a run that lists the directory as soon as its first query has returned
QueryReturnsListsEarly(i) ==
    /\ alive
    /\ frames[i].pc = "scan"
    /\ \/ /\ frames' = [frames EXCEPT
                ![i].referencedImages = @ \cup ScanCollection(db, frames[i].k),
                ![i].k = IF @ < Len(Scanned) THEN @ + 1 ELSE 0,
                ![i].pc = "readdir"]
          /\ UNCHANGED isRunning
       \/ CatchFinally(i)
    /\ UNCHANGED <<alive, db, disk, preview, previewResp, tasks>>

\* one await Model.find() of getReferencedImages resolves or rejects
QueryReturns(i) ==
    /\ alive
    /\ frames[i].pc = "scan"
    /\ \/ /\ frames' = [frames EXCEPT
                ![i].referencedImages = @ \cup ScanCollection(db, frames[i].k),
                ![i].k = IF @ < Len(Scanned) THEN @ + 1 ELSE 0,
                ![i].pc = IF frames[i].k < Len(Scanned) THEN "scan" ELSE "readdir"]
          /\ UNCHANGED isRunning
       \/ CatchFinally(i)
    /\ UNCHANGED <<alive, db, disk, preview, previewResp, tasks>>

\* performCleanup without the orphanedFiles.size > 0 test: the deletion step
\* is entered whatever the orphan set holds
ReaddirReturnsAlwaysDeletes(i) ==
    /\ alive
    /\ frames[i].pc = "readdir"
    /\ \/ LET uploadedFiles == GetUploadedFiles(Readdir(disk))
              orphanedFiles == FindOrphans(uploadedFiles, frames[i].referencedImages)
              f == [frames[i] EXCEPT !.uploadedFiles = uploadedFiles,
                                     !.orphanedFiles = orphanedFiles]
          IN  /\ frames' = [frames EXCEPT ![i] = [f EXCEPT !.pc = "unlink", !.idx = 1]]
              /\ UNCHANGED isRunning
       \/ CatchFinally(i)
    /\ UNCHANGED <<alive, db, disk, preview, previewResp, tasks>>

\* await fs.readdir() of getUploadedFiles resolves or rejects; on success the
\* orphan set is computed and the first unlink is issued
ReaddirReturns(i) ==
    /\ alive
    /\ frames[i].pc = "readdir"
    /\ \/ LET uploadedFiles == GetUploadedFiles(Readdir(disk))
              orphanedFiles == FindOrphans(uploadedFiles, frames[i].referencedImages)
              f == [frames[i] EXCEPT !.uploadedFiles = uploadedFiles,
                                     !.orphanedFiles = orphanedFiles]
          IN  IF Len(orphanedFiles) > 0
              THEN /\ frames' = [frames EXCEPT ![i] = [f EXCEPT !.pc = "unlink", !.idx = 1]]
                   /\ UNCHANGED isRunning
              ELSE CompleteFinally(i, f)
       \/ CatchFinally(i)
    /\ UNCHANGED <<alive, db, disk, preview, previewResp, tasks>>

\* the loop body of deleteOrphanedFiles after await fs.unlink(): the file is
\* removed and counted, or the error is caught and recorded
UnlinkOutcome(f, ok) ==
    IF ok
    THEN [f EXCEPT !.deletedCount = @ + 1,
                   !.unlinked = @ \cup {f.orphanedFiles[f.idx]}]
    ELSE [f EXCEPT !.errors = Append(@, f.orphanedFiles[f.idx])]

\* deleteOrphanedFiles with the try/catch around the loop instead of inside it
UnlinkReturnsStopOnError(i) ==
    /\ alive
    /\ frames[i].pc = "unlink"
    /\ \E ok \in BOOLEAN :
        LET filename == frames[i].orphanedFiles[frames[i].idx]
            f == UnlinkOutcome(frames[i], ok)
        IN  /\ ok => filename \in disk
            /\ disk' = IF ok THEN disk \ {filename} ELSE disk
            /\ IF ok /\ frames[i].idx < Len(frames[i].orphanedFiles)
               THEN /\ frames' = [frames EXCEPT ![i] = [f EXCEPT !.idx = @ + 1]]
                    /\ UNCHANGED isRunning
               ELSE CompleteFinally(i, f)
    /\ UNCHANGED <<alive, db, preview, previewResp, tasks>>

\* one await fs.unlink() of deleteOrphanedFiles resolves or rejects
UnlinkReturnsLeavesFile(i) ==
    /\ alive
    /\ frames[i].pc = "unlink"
    /\ \E ok \in BOOLEAN :
        LET filename == frames[i].orphanedFiles[frames[i].idx]
            f == UnlinkOutcome(frames[i], ok)
        IN  /\ ok => filename \in disk
            /\ disk' = disk
            /\ IF frames[i].idx < Len(frames[i].orphanedFiles)
               THEN /\ frames' = [frames EXCEPT ![i] = [f EXCEPT !.idx = @ + 1]]
                    /\ UNCHANGED isRunning
               ELSE CompleteFinally(i, f)
    /\ UNCHANGED <<alive, db, preview, previewResp, tasks>>

UnlinkReturnsRechecked(i) ==
    /\ alive
    /\ frames[i].pc = "unlink"
    /\ \E ok \in BOOLEAN :
        LET filename == frames[i].orphanedFiles[frames[i].idx]
            f == UnlinkOutcome(frames[i], ok)
        IN  /\ ok => filename \in disk
            /\ ok => filename \notin UNION {ScanCollection(db, k) : k \in 1..Len(Scanned)}
            /\ disk' = IF ok THEN disk \ {filename} ELSE disk
            /\ IF frames[i].idx < Len(frames[i].orphanedFiles)
               THEN /\ frames' = [frames EXCEPT ![i] = [f EXCEPT !.idx = @ + 1]]
                    /\ UNCHANGED isRunning
               ELSE CompleteFinally(i, f)
    /\ UNCHANGED <<alive, db, preview, previewResp, tasks>>

UnlinkReturns(i) ==
    /\ alive
    /\ frames[i].pc = "unlink"
    /\ \E ok \in BOOLEAN :
        LET filename == frames[i].orphanedFiles[frames[i].idx]
            f == UnlinkOutcome(frames[i], ok)
        IN  /\ ok => filename \in disk
            /\ disk' = IF ok THEN disk \ {filename} ELSE disk
            /\ IF frames[i].idx < Len(frames[i].orphanedFiles)
               THEN /\ frames' = [frames EXCEPT ![i] = [f EXCEPT !.idx = @ + 1]]
                    /\ UNCHANGED isRunning
               ELSE CompleteFinally(i, f)
    /\ UNCHANGED <<alive, db, preview, previewResp, tasks>>

\* ------------------------------------------------------------- controllers

\* POST /cleanup/trigger: performCleanup() in the background
TriggerManualCleanup ==
    /\ alive
    /\ PerformCleanup
    /\ UNCHANGED <<alive, db, disk, preview, previewResp, tasks>>

\* manualCleanup(): await this.performCleanup()
ManualCleanup ==
    /\ alive
    /\ PerformCleanup
    /\ UNCHANGED <<alive, db, disk, preview, previewResp, tasks>>

\* a preview that takes the run-lock as performCleanup does
GetOrphanedFilesPreviewLocked ==
    /\ alive
    /\ preview.pc = "idle"
    /\ ~isRunning
    /\ isRunning' = TRUE
    /\ preview' = [IdlePreview EXCEPT !.pc = "scan", !.k = 1]
    /\ previewResp' = NoResponse
    /\ UNCHANGED <<alive, db, disk, frames, tasks>>

\* GET /cleanup/preview: the first query of getReferencedImages is issued
GetOrphanedFilesPreview ==
    /\ alive
    /\ preview.pc = "idle"
    /\ preview' = [IdlePreview EXCEPT !.pc = "scan", !.k = 1]
    /\ previewResp' = NoResponse
    /\ UNCHANGED <<alive, isRunning, db, disk, frames, tasks>>

\* ApiResponse.error(res, 'Failed to generate orphaned files preview', 500)
PreviewError ==
    /\ preview' = IdlePreview
    /\ previewResp' = [status |-> 500]

PreviewQueryReturns ==
    /\ alive
    /\ preview.pc = "scan"
    /\ \/ /\ preview' = [preview EXCEPT
                !.referencedImages = @ \cup ScanCollection(db, preview.k),
                !.k = IF @ < Len(Scanned) THEN @ + 1 ELSE 0,
                !.pc = IF preview.k < Len(Scanned) THEN "scan" ELSE "readdir"]
          /\ UNCHANGED previewResp
       \/ PreviewError
    /\ UNCHANGED <<alive, isRunning, db, disk, frames, tasks>>

\* a preview that deletes what it lists
PreviewReaddirReturnsDeleting ==
    /\ alive
    /\ preview.pc = "readdir"
    /\ LET uploadedFiles == GetUploadedFiles(Readdir(disk))
           orphanedFiles == FindOrphans(uploadedFiles, preview.referencedImages)
       IN  /\ preview' = IdlePreview
           /\ previewResp' =
                 [status |-> 200,
                  totalFilesInUploads |-> Len(uploadedFiles),
                  referencedFiles |-> Cardinality(preview.referencedImages),
                  orphanedFiles |-> Len(orphanedFiles),
                  orphanedFileList |-> orphanedFiles]
           /\ disk' = disk \ Range(orphanedFiles)
    /\ UNCHANGED <<alive, isRunning, db, frames, tasks>>

PreviewReaddirReturns ==
    /\ alive
    /\ preview.pc = "readdir"
    /\ \/ LET uploadedFiles == GetUploadedFiles(Readdir(disk))
              orphanedFiles == FindOrphans(uploadedFiles, preview.referencedImages)
          IN  /\ preview' = IdlePreview
              /\ previewResp' =
                    [status |-> 200,
                     totalFilesInUploads |-> Len(uploadedFiles),
                     referencedFiles |-> Cardinality(preview.referencedImages),
                     orphanedFiles |-> Len(orphanedFiles),
                     orphanedFileList |-> orphanedFiles]
       \/ PreviewError
    /\ UNCHANGED <<alive, isRunning, db, disk, frames, tasks>>

\* --------------------------------------------------------------- scheduler

\* cron.schedule(cronExpression, () => this.performCleanup())
StartScheduler ==
    /\ alive
    /\ Len(tasks) < MaxTasks
    /\ tasks' = Append(tasks, TRUE)
    /\ UNCHANGED <<alive, isRunning, db, disk, frames, preview, previewResp>>

\* a stop that flips every task of the registry
StopSchedulerToggle ==
    /\ alive
    /\ tasks' = [t \in 1..Len(tasks) |-> ~tasks[t]]
    /\ UNCHANGED <<alive, isRunning, db, disk, frames, preview, previewResp>>

\* cron.getTasks().forEach(task => task.stop())
StopSchedulerAborting ==
    /\ alive
    /\ tasks' = [t \in 1..Len(tasks) |-> FALSE]
    /\ frames' = [i \in Invocations |->
                    IF frames[i].pc \in InPipeline
                    THEN [IdleFrame EXCEPT !.pc = "failed"] ELSE frames[i]]
    /\ isRunning' = FALSE
    /\ UNCHANGED <<alive, db, disk, preview, previewResp>>

StopScheduler ==
    /\ alive
    /\ tasks' = [t \in 1..Len(tasks) |-> FALSE]
    /\ UNCHANGED <<alive, isRunning, db, disk, frames, preview, previewResp>>

\* a running task's callback at 18:30 UTC: this.performCleanup()
ScheduledRun(t) ==
    /\ alive
    /\ tasks[t]
    /\ PerformCleanup
    /\ UNCHANGED <<alive, db, disk, preview, previewResp, tasks>>

\* ------------------------------------------------------------- environment

\* a controller stores a reference to an uploaded file
DbWrite(r) ==
    /\ alive
    /\ r \notin db
    /\ Cardinality(db) < MaxRefs
    /\ db' = db \cup {r}
    /\ UNCHANGED <<alive, isRunning, disk, frames, preview, previewResp, tasks>>

\* a controller removes a record or clears its reference
DbRemove(r) ==
    /\ alive
    /\ r \in db
    /\ db' = db \ {r}
    /\ UNCHANGED <<alive, isRunning, disk, frames, preview, previewResp, tasks>>

Next ==
    \/ TriggerManualCleanup
          /\ UNCHANGED observers
    \/ ManualCleanup
          /\ UNCHANGED observers
    \/ (\E t \in 1..Len(tasks) : ScheduledRun(t))
          /\ UNCHANGED observers
    \/ (\E i \in Invocations : ConnectDBReturns(i))
          /\ UNCHANGED observers
    \/ (\E i \in Invocations : QueryReturns(i))
          /\ UNCHANGED observers
    \/ (\E i \in Invocations : ReaddirReturns(i))
          /\ UNCHANGED observers
    \/ (\E i \in Invocations : UnlinkReturns(i))
          /\ UNCHANGED observers
    \/ GetOrphanedFilesPreview
          /\ UNCHANGED observers
    \/ PreviewQueryReturns
          /\ UNCHANGED observers
    \/ PreviewReaddirReturns
          /\ UNCHANGED observers
    \/ StartScheduler
          /\ UNCHANGED observers
    \/ StopScheduler
          /\ UNCHANGED observers
    \/ (\E r \in DbPool : DbWrite(r))
          /\ UNCHANGED observers
    \/ (\E r \in DbPool : DbRemove(r))
          /\ UNCHANGED observers

Spec == Init /\ [][Next]_vars

\* the same program while no controller writes the database
NextQuiet ==
    \/ TriggerManualCleanup
          /\ UNCHANGED observers
    \/ ManualCleanup
          /\ UNCHANGED observers
    \/ (\E t \in 1..Len(tasks) : ScheduledRun(t))
          /\ UNCHANGED observers
    \/ (\E i \in Invocations : ConnectDBReturns(i))
          /\ UNCHANGED observers
    \/ (\E i \in Invocations : QueryReturns(i))
          /\ UNCHANGED observers
    \/ (\E i \in Invocations : ReaddirReturns(i))
          /\ UNCHANGED observers
    \/ (\E i \in Invocations : UnlinkReturns(i))
          /\ UNCHANGED observers
    \/ GetOrphanedFilesPreview
          /\ UNCHANGED observers
    \/ PreviewQueryReturns
          /\ UNCHANGED observers
    \/ PreviewReaddirReturns
          /\ UNCHANGED observers
    \/ StartScheduler
          /\ UNCHANGED observers
    \/ StopScheduler
          /\ UNCHANGED observers

SpecQuiet == Init /\ [][NextQuiet]_vars

\* ------------------------------------------- runs beside database writers

\* triggered runs while other requests of the API write and remove records
NextRace ==
    \/ TriggerManualCleanup
          /\ UNCHANGED observers
    \/ (\E i \in Invocations : ConnectDBReturns(i))
          /\ UNCHANGED observers
    \/ (\E i \in Invocations : QueryReturns(i))
          /\ UNCHANGED observers
    \/ (\E i \in Invocations : ReaddirReturns(i))
          /\ UNCHANGED observers
    \/ (\E i \in Invocations : UnlinkReturns(i))
          /\ UNCHANGED observers
    \/ (\E r \in DbPool : DbWrite(r))
          /\ UNCHANGED observers
    \/ (\E r \in DbPool : DbRemove(r))
          /\ UNCHANGED observers

SpecRace == Init /\ [][NextRace]_vars

\* every awaited call of a run returns or fails: the event loop resumes the
\* run when mongoose, fs.readdir or fs.unlink settles its promise
AwaitsReturn ==
    /\ WF_vars((\E i \in Invocations : ConnectDBReturns(i)) /\ UNCHANGED observers)
    /\ WF_vars((\E i \in Invocations : QueryReturns(i)) /\ UNCHANGED observers)
    /\ WF_vars((\E i \in Invocations : ReaddirReturns(i)) /\ UNCHANGED observers)
    /\ WF_vars((\E i \in Invocations : UnlinkReturns(i)) /\ UNCHANGED observers)

SpecFair == SpecRace /\ AwaitsReturn

\* -------------------------------------------------------- repeated preview

\* GET /cleanup/preview again, by an administrator who keeps the response
\* to the request before
GetOrphanedFilesPreviewAgain ==
    /\ previewResp.status = 200
    /\ GetOrphanedFilesPreview
    /\ kept' = previewResp
    /\ UNCHANGED <<otherTasks, httpResp, url, extracted>>

\* preview requests alone: nothing writes the database or the directory
NextPreview ==
    \/ GetOrphanedFilesPreview
          /\ UNCHANGED observers
    \/ GetOrphanedFilesPreviewAgain
    \/ PreviewQueryReturns
          /\ UNCHANGED observers
    \/ PreviewReaddirReturns
          /\ UNCHANGED observers

SpecPreview == Init /\ [][NextPreview]_vars

\* ------------------------------------------------------------- HTTP router

Routes == {"trigger", "status", "preview", "scheduler/start", "scheduler/stop"}

\* who sends a request: no Authorization header, a token that jwt.verify
\* rejects, the valid token of a deleted or deactivated user, a Customer,
\* an Admin
Callers == {"anonymous", "forged", "deactivated", "Customer", "Admin"}

\* the request is held: in verifyToken's await, in the controller's awaits,
\* or for good ("unanswered")
Held(route, caller, pc) ==
    [route |-> route, caller |-> caller, pc |-> pc, status |-> 0, data |-> Null]

\* res.status(status).json({ type, message, data })
Answer(route, caller, status, data) ==
    [route |-> route, caller |-> caller, pc |-> "answered", status |-> status,
     data |-> data]

\* throw new ApiError(401, '...') in verifyToken: the constructor takes
\* (message, statusCode), so the catch block calls res.status('...').json()
\* and writeHead throws ERR_HTTP_INVALID_STATUS_CODE inside the catch block.
\* Nothing handles the rejection of verifyToken: node exits, or with
\* --unhandled-rejections=warn the request is never answered.
ApiErrorThrown(route, caller) ==
    /\ httpResp' = Held(route, caller, "unanswered")
    /\ \/ alive' = FALSE
       \/ UNCHANGED alive

\* verifyToken up to await UserModel.findById()
VerifyToken(route, caller) ==
    /\ alive
    /\ httpResp.pc # "verifyToken"
    /\ \/ /\ caller = "anonymous"
          /\ ApiErrorThrown(route, caller)
       \/ /\ caller = "forged"
          /\ httpResp' = Answer(route, caller, 401, Null)
          /\ UNCHANGED alive
       \/ /\ caller \notin {"anonymous", "forged"}
          /\ httpResp' = Held(route, caller, "verifyToken")
          /\ UNCHANGED alive
    /\ UNCHANGED <<isRunning, db, disk, frames, preview, previewResp, tasks>>
    /\ UNCHANGED <<otherTasks, kept, url, extracted>>

\* a trigger endpoint that refuses while a run is in progress
TriggerManualCleanupConflict ==
    IF isRunning THEN Answer("trigger", "Admin", 409, Null)
    ELSE Answer("trigger", "Admin", 200, "object")

\* ApiResponse.success(res, 'Cleanup process started successfully', {...}, 200)
TriggerManualCleanupResponse == Answer("trigger", "Admin", 200, "object")

\* the status object of getCleanupStatus: isRunning is the service's flag;
\* schedulerActive is isSchedulerActive() if the service has such a method,
\* else !!cleanupService.task, and the service has neither member
GetCleanupStatusResponse ==
    [route |-> "status", caller |-> "Admin", pc |-> "answered", status |-> 200,
     data |-> "object", isRunning |-> isRunning, schedulerActive |-> FALSE]

\* getCleanupStatus: reads the service, writes nothing
GetCleanupStatus ==
    UNCHANGED <<alive, isRunning, db, disk, frames, preview, previewResp, tasks>>

\* startCleanupScheduler: cleanupService.startScheduler()
StartCleanupSchedulerRevives ==
    /\ Len(tasks) < MaxStarts
    /\ tasks' = Append([t \in 1..Len(tasks) |-> TRUE], TRUE)
    /\ UNCHANGED <<alive, isRunning, db, disk, frames, preview, previewResp>>

StartCleanupSchedulerOnce ==
    /\ Len(tasks) < MaxStarts
    /\ \A t \in 1..Len(tasks) : ~tasks[t]
    /\ tasks' = Append(tasks, TRUE)
    /\ UNCHANGED <<alive, isRunning, db, disk, frames, preview, previewResp>>

StartCleanupScheduler ==
    /\ Len(tasks) < MaxStarts
    /\ tasks' = Append(tasks, TRUE)
    /\ UNCHANGED <<alive, isRunning, db, disk, frames, preview, previewResp>>

\* the controller of a route, up to its response or its first await
Controller(route) ==
    \/ /\ route = "trigger"
       /\ TriggerManualCleanup
       /\ httpResp' = TriggerManualCleanupResponse
    \/ /\ route = "status"
       /\ GetCleanupStatus
       /\ httpResp' = GetCleanupStatusResponse
    \/ /\ route = "preview"
       /\ GetOrphanedFilesPreview
       /\ httpResp' = Held(route, "Admin", "controller")
    \/ /\ route = "scheduler/start"
       /\ StartCleanupScheduler
       /\ httpResp' = Answer(route, "Admin", 200, "object")
    \/ /\ route = "scheduler/stop"
       /\ StopScheduler
       /\ httpResp' = Answer(route, "Admin", 200, "object")

\* authorize(['Admin']), then the controller
Authorize(route, caller) ==
    IF caller # "Admin"
    THEN /\ httpResp' = Answer(route, caller, 403, Null)
         /\ UNCHANGED <<alive, isRunning, db, disk, frames, preview, previewResp, tasks>>
    ELSE Controller(route)

\* await UserModel.findById() returns: the rest of verifyToken, authorize and
\* the controller run without another await
FindByIdReturns ==
    /\ alive
    /\ httpResp.pc = "verifyToken"
    /\ IF httpResp.caller = "deactivated"
       THEN /\ ApiErrorThrown(httpResp.route, httpResp.caller)
            /\ UNCHANGED <<isRunning, db, disk, frames, preview, previewResp, tasks>>
       ELSE Authorize(httpResp.route, httpResp.caller)
    /\ UNCHANGED <<otherTasks, kept, url, extracted>>

\* the server with one uploaded file and no reference stored
InitHttp ==
    /\ alive = TRUE
    /\ isRunning = FALSE
    /\ db = {}
    /\ disk = {GITKEEP, "b.jpg"}
    /\ frames = [i \in Invocations |-> IdleFrame]
    /\ preview = IdlePreview
    /\ previewResp = NoResponse
    /\ tasks = <<>>
    /\ otherTasks = <<>>
    /\ kept = NoResponse
    /\ httpResp = NoRequest
    /\ url = EmptyString
    /\ extracted = Null

NextHttp ==
    \/ \E route \in Routes, caller \in Callers : VerifyToken(route, caller)
    \/ FindByIdReturns
    \/ (\E t \in 1..Len(tasks) : ScheduledRun(t))
          /\ UNCHANGED observers
    \/ (\E i \in Invocations : ConnectDBReturns(i))
          /\ UNCHANGED observers
    \/ (\E i \in Invocations : QueryReturns(i))
          /\ UNCHANGED observers
    \/ (\E i \in Invocations : ReaddirReturns(i))
          /\ UNCHANGED observers
    \/ (\E i \in Invocations : UnlinkReturns(i))
          /\ UNCHANGED observers
    \/ PreviewQueryReturns
          /\ UNCHANGED observers
    \/ PreviewReaddirReturns
          /\ UNCHANGED observers

SpecHttp == InitHttp /\ [][NextHttp]_vars

\* ---------------------------------------------------- scheduler life cycle

\* stopScheduler() on a registry that also holds tasks of other code:
\* cron.getTasks() is the registry of the whole process
StopSchedulerRegistry ==
    /\ StopScheduler
    /\ otherTasks' = [t \in 1..Len(otherTasks) |-> FALSE]

\* the server with one uploaded file, in a process whose cron registry may
\* hold a running task that is not the cleanup service's
InitScheduler ==
    /\ alive = TRUE
    /\ isRunning = FALSE
    /\ db = {}
    /\ disk = {GITKEEP, "b.jpg"}
    /\ frames = [i \in Invocations |-> IdleFrame]
    /\ preview = IdlePreview
    /\ previewResp = NoResponse
    /\ tasks = <<>>
    /\ otherTasks \in {<<>>, <<TRUE>>}
    /\ kept = NoResponse
    /\ httpResp = NoRequest
    /\ url = EmptyString
    /\ extracted = Null

NextScheduler ==
    \/ StartScheduler
          /\ UNCHANGED observers
    \/ StartCleanupScheduler
          /\ UNCHANGED observers
    \/ StopSchedulerRegistry
          /\ UNCHANGED <<kept, httpResp, url, extracted>>
    \/ (\E t \in 1..Len(tasks) : ScheduledRun(t))
          /\ UNCHANGED observers
    \/ (\E i \in Invocations : ConnectDBReturns(i))
          /\ UNCHANGED observers
    \/ (\E i \in Invocations : QueryReturns(i))
          /\ UNCHANGED observers
    \/ (\E i \in Invocations : ReaddirReturns(i))
          /\ UNCHANGED observers
    \/ (\E i \in Invocations : UnlinkReturns(i))
          /\ UNCHANGED observers

SpecScheduler == InitScheduler /\ [][NextScheduler]_vars

\* --------------------------------------------------------------- extractor

\* file names: plain ones, one with a space, one that starts with 'http'
Names == {"a.jpg", "photo.png", "my photo.png", "http-banner.png"}

Dirs == {"uploads", "products"}

Paths == UNION {[1..n -> Dirs] : n \in 0..MaxDepth}

\* the reference strings given to the extractor: none, bare file names,
\* root-relative paths, full URLs with and without a path, malformed URLs
References ==
    {EmptyString}
        \cup {BareName(name) : name \in Names}
        \cup {[http |-> FALSE, parses |-> TRUE, segs |-> path \o <<name>>] :
                path \in Paths \ {<<>>}, name \in Names}
        \cup {[http |-> TRUE, parses |-> TRUE, segs |-> path \o <<name>>] :
                path \in Paths, name \in Names}
        \cup {[http |-> TRUE, parses |-> TRUE, segs |-> <<>>]}
        \cup {Malformed(path, name) : path \in Paths, name \in Names}

\* no call made yet
Uncalled == "<uncalled>"

InitExtractor ==
    /\ alive = TRUE
    /\ isRunning = FALSE
    /\ db = {}
    /\ disk = {GITKEEP}
    /\ frames = [i \in Invocations |-> IdleFrame]
    /\ preview = IdlePreview
    /\ previewResp = NoResponse
    /\ tasks = <<>>
    /\ otherTasks = <<>>
    /\ kept = NoResponse
    /\ httpResp = NoRequest
    /\ url \in References
    /\ extracted = Uncalled

\* filename = this.extractFilenameFromUrl(url)
ExtractFilename ==
    /\ extracted = Uncalled
    /\ extracted' = ExtractFilenameFromUrl(url)
    /\ UNCHANGED <<alive, isRunning, db, disk, frames, preview, previewResp,
                   tasks, otherTasks, kept, httpResp, url>>

NextExtractor == ExtractFilename

SpecExtractor == InitExtractor /\ [][NextExtractor]_vars

\* ------------------------------------------------- settings from a request

\* image objects a client stores through PUT /app-settings: updateAppSettings
\* copies req.body onto the settings document, filename included
BodyPool ==
    { [coll |-> "AppSettings", field |-> "storeLogo.filename", ref |-> RootRelative("a.jpg")],
      [coll |-> "AppSettings", field |-> "heroImage.filename", ref |-> FullUrl("a.jpg")],
      [coll |-> "AppSettings", field |-> "storeLogo.filename", ref |-> BareName("a.jpg")] }

InitSettings ==
    /\ alive = TRUE
    /\ isRunning = FALSE
    /\ db \in {d \in SUBSET BodyPool : Cardinality(d) <= MaxRefs}
    /\ disk \in {s \in SUBSET DirEntries : GITKEEP \in s}
    /\ frames = [i \in Invocations |-> IdleFrame]
    /\ preview = IdlePreview
    /\ previewResp = NoResponse
    /\ tasks = <<>>
    /\ otherTasks = <<>>
    /\ kept = NoResponse
    /\ httpResp = NoRequest
    /\ url = EmptyString
    /\ extracted = Null

SpecSettings == InitSettings /\ [][NextQuiet]_vars

\* ----------------------------------------------------------------- claims

\* the invocations between the taking of the run-lock and the finally block
ActiveOf(fr) == {i \in Invocations : fr[i].pc \in InPipeline}

\* the file a reference record points at
ReferencedFile(r) == Basename(r.ref.segs)

\* what a scan of an unchanging database finds
FullScan(d) == UNION {ScanCollection(d, k) : k \in 1..Len(Scanned)}

\* C1: at most one cleanup pipeline is in progress at any time, and a
\* performCleanup() invoked while isRunning is true starts no pipeline.
C1_MutualExclusion ==
    [][/\ Cardinality(ActiveOf(frames')) <= 1
       /\ (isRunning => ActiveOf(frames') \subseteq ActiveOf(frames))]_vars

\* a run is in progress and a second invocation has returned at once
C1_Witness ==
    \E i, j \in Invocations :
        /\ frames[i].pc \in InPipeline
        /\ frames[j].pc = "skipped"
        /\ isRunning

\* C2: every file a run has unlinked is in the uploaded-file set the run
\* listed and not in the referenced set the run scanned.
C2_DeletesOnlyListedUnreferenced ==
    \A i \in Invocations :
        /\ frames[i].unlinked \subseteq Range(frames[i].uploadedFiles)
        /\ frames[i].unlinked \cap frames[i].referencedImages = {}

\* a run deleted a file and kept a listed file that it found referenced
C2_Witness ==
    \E i \in Invocations :
        /\ frames[i].pc = "done"
        /\ frames[i].unlinked = {"b.jpg"}
        /\ "a.jpg" \in Range(frames[i].uploadedFiles) \cap frames[i].referencedImages
        /\ "a.jpg" \in disk

\* C3: a run only deletes files that no record of the database references:
\* a file referenced by any record that stores an upload reference (product
\* variants and size charts included) and present when the run scans the
\* unchanging database is not deleted by the run.
C3_ReferencedFilesAreKept ==
    \A i \in Invocations :
        \A r \in db : ReferencedFile(r) \notin frames[i].unlinked

\* C4: the orphan set of a run and of the preview is exactly U \ R, U being
\* the directory listing without the sentinel, and the preview's counts are
\* |U|, |R| and |U \ R|.
C4_OrphansAreSetDifference ==
    [][/\ (preview.pc = "readdir" /\ previewResp'.status = 200) =>
            LET U == disk \ {GITKEEP}
                R == preview.referencedImages
            IN  /\ Range(previewResp'.orphanedFileList) = U \ R
                /\ Len(previewResp'.orphanedFileList) = Cardinality(U \ R)
                /\ previewResp'.totalFilesInUploads = Cardinality(U)
                /\ previewResp'.referencedFiles = Cardinality(R)
                /\ previewResp'.orphanedFiles = Cardinality(U \ R)
       /\ \A i \in Invocations :
            (frames[i].pc = "readdir" /\ frames'[i].pc \in {"unlink", "done"}) =>
                /\ Range(frames'[i].uploadedFiles) = disk \ {GITKEEP}
                /\ Range(frames'[i].orphanedFiles) =
                      (disk \ {GITKEEP}) \ frames[i].referencedImages]_vars

\* scenario A: one referenced file, one orphan and the sentinel
C4_Witness ==
    /\ previewResp.status = 200
    /\ previewResp.totalFilesInUploads = 2
    /\ previewResp.referencedFiles = 1
    /\ previewResp.orphanedFiles = 1
    /\ previewResp.orphanedFileList = <<"b.jpg">>
    /\ disk = {GITKEEP, "a.jpg", "b.jpg"}

\* C5: once a performCleanup() call has settled, by completing or by an
\* exception caught in it, isRunning is false.
C5_FlagResetAfterSettle ==
    (\E i \in Invocations : frames[i].pc \in {"done", "failed"}) => ~isRunning

\* a call that settled through its catch block
C5_Witness ==
    \E i \in Invocations : frames[i].pc = "failed" /\ ~isRunning

\* C6: the deletion loop attempts every orphan; each is counted once, as
\* deleted or as an error, so deletedCount + errors.length = N.
C6_EveryOrphanAttempted ==
    \A i \in Invocations :
        /\ frames[i].pc = "unlink" =>
              frames[i].deletedCount + Len(frames[i].errors) = frames[i].idx - 1
        /\ frames[i].pc = "done" =>
              /\ frames[i].deletedCount + Len(frames[i].errors)
                    = Len(frames[i].orphanedFiles)
              /\ frames[i].unlinked \cup Range(frames[i].errors)
                    = Range(frames[i].orphanedFiles)
              /\ frames[i].unlinked \cap Range(frames[i].errors) = {}
              /\ frames[i].deletedCount = Cardinality(frames[i].unlinked)

\* the first of two deletions threw and the second file was still deleted
C6_Witness ==
    \E i \in Invocations :
        /\ frames[i].pc = "done"
        /\ frames[i].orphanedFiles = <<"a.jpg", "b.jpg">>
        /\ frames[i].errors = <<"a.jpg">>
        /\ frames[i].unlinked = {"b.jpg"}
        /\ frames[i].deletedCount = 1

\* C7: a failed collection read or directory listing aborts the run: the run
\* deletes nothing and the lock is released; a run that goes on to resolve
\* orphans has the result of every collection read in its referenced set.
C7_FailedScanAbortsRun ==
    [][\A i \in Invocations :
        /\ (frames[i].pc \in InPipeline /\ frames'[i].pc = "failed") =>
              /\ disk' = disk
              /\ frames[i].unlinked = {}
              /\ ~isRunning'
        /\ (frames[i].pc = "readdir" /\ frames'[i].pc \in {"unlink", "done"}) =>
              frames[i].referencedImages = FullScan(db)]_vars

\* an aborted run left the orphan on disk and the lock released
C7_Witness ==
    \E i \in Invocations :
        /\ frames[i].pc = "failed"
        /\ "b.jpg" \in disk
        /\ ~isRunning

\* C8: a failure of the database connection during performCleanup leaves
\* the process alive and the orchestrator idle.
C8_ProcessSurvivesFailure ==
    alive /\ (ActiveOf(frames) = {} => ~isRunning)

\* C9: the sentinel is never in the uploaded-file set or the orphan set of a
\* run or a preview, and it is never deleted.
C9_SentinelNeverDeleted ==
    /\ GITKEEP \in disk
    /\ \A i \in Invocations :
          GITKEEP \notin Range(frames[i].uploadedFiles)
                          \cup Range(frames[i].orphanedFiles)
                          \cup frames[i].unlinked
    /\ previewResp.status = 200 =>
          GITKEEP \notin Range(previewResp.orphanedFileList)

\* a run deleted every upload while no record referenced anything, a preview
\* then listed the directory, and the sentinel is still there
C9_Witness ==
    /\ \E i \in Invocations :
          frames[i].pc = "done" /\ frames[i].unlinked = {"a.jpg", "b.jpg"}
    /\ db = {}
    /\ disk = {GITKEEP}
    /\ previewResp.status = 200
    /\ previewResp.totalFilesInUploads = 0

\* C10: a preview step changes neither the disk, the run-lock, the runs nor
\* the scheduler, and a preview can be requested whatever the run-lock is.
C10_PreviewSideEffectFree ==
    /\ []((alive /\ preview.pc = "idle") => ENABLED GetOrphanedFilesPreview)
    /\ [][(preview' # preview \/ previewResp' # previewResp) =>
            UNCHANGED <<alive, isRunning, db, disk, frames, tasks>>]_vars

\* a preview listed the directory after the run in progress had deleted
\* a.jpg and before it had finished
C10_Witness ==
    /\ \E i \in Invocations :
          /\ frames[i].pc = "unlink"
          /\ frames[i].unlinked = {"a.jpg"}
    /\ isRunning
    /\ previewResp.status = 200
    /\ previewResp.totalFilesInUploads = 1
    /\ previewResp.orphanedFileList = <<"b.jpg">>

\* C11: two preview requests in succession, with no write to the database
\* or the directory between them, answer with the same orphanedFileList.
C11_PreviewRepeatable ==
    (kept.status = 200 /\ previewResp.status = 200)
        => previewResp.orphanedFileList = kept.orphanedFileList

\* a second preview has answered and both responses list an orphan
C11_Witness ==
    /\ kept.status = 200
    /\ previewResp.status = 200
    /\ kept.orphanedFileList = <<"b.jpg">>
    /\ preview.pc = "idle"

\* the step in which the trigger controller runs for an administrator
TriggerHandled ==
    /\ httpResp.pc = "verifyToken"
    /\ httpResp.route = "trigger"
    /\ httpResp.caller = "Admin"
    /\ httpResp' # httpResp

\* C12: POST /cleanup/trigger answers 200 in the step that calls
\* performCleanup(), while the run it started (or the run already in
\* progress) is still in the pipeline, and no later step of a run, failed or
\* not, changes that response.
C12_TriggerAnswersAtOnce ==
    [][/\ TriggerHandled =>
            /\ httpResp' = Answer("trigger", "Admin", 200, "object")
            /\ isRunning'
            /\ ActiveOf(frames') # {}
       /\ (httpResp.pc = "answered" /\ httpResp.route = "trigger"
                /\ frames' # frames)
            => httpResp' = httpResp]_vars

\* the trigger answered 200 to a call that was a no-op, and the run that was
\* in progress has failed since
C12_Witness ==
    /\ httpResp = Answer("trigger", "Admin", 200, "object")
    /\ \E i, j \in Invocations :
          /\ frames[i].pc = "skipped"
          /\ frames[j].pc = "failed"
    /\ ~isRunning
    /\ tasks = <<>>

\* the invocations that enter the pipeline in a step
StartedIn(fr, gr) ==
    {i \in Invocations : fr[i].pc \notin InPipeline /\ gr[i].pc \in InPipeline}

\* C13: a skipped performCleanup() is neither queued nor retried: the step
\* in which a run settles starts no pipeline and leaves none in progress,
\* and a pipeline starts only in a step that is a manual trigger or a
\* firing of a cron task.
C13_SkippedNotRetried ==
    [][/\ (isRunning /\ ~isRunning') => ActiveOf(frames') = {}
       /\ StartedIn(frames, frames') # {} =>
            \/ TriggerManualCleanup
            \/ ManualCleanup
            \/ \E t \in 1..Len(tasks) : ScheduledRun(t)]_vars

\* a run has settled and the invocation skipped during it is still skipped
C13_Witness ==
    /\ ~isRunning
    /\ \E i, j \in Invocations :
          /\ frames[i].pc = "skipped"
          /\ frames[j].pc = "done"
          /\ frames[j].unlinked # {}

\* callers that verifyToken is meant to turn away with 401
Unauthenticated == {"anonymous", "forged", "deactivated"}

\* C14: a request of a caller who is not an authenticated Admin is answered
\* 401 (unauthenticated) or 403 (authenticated, not Admin) with data null,
\* on every cleanup route, and the step that handles it changes nothing of
\* the cleanup state.
C14_OnlyAdminReaches ==
    [][(httpResp' # httpResp /\ httpResp'.caller # "Admin") =>
            /\ UNCHANGED <<alive, isRunning, db, disk, frames, preview,
                           previewResp, tasks>>
            /\ httpResp'.pc # "verifyToken" =>
                    /\ httpResp'.pc = "answered"
                    /\ httpResp'.data = Null
                    /\ httpResp'.status =
                          IF httpResp'.caller \in Unauthenticated THEN 401 ELSE 403]_vars

\* no task of the cleanup service is running
NothingScheduled == \A t \in 1..Len(tasks) : ~tasks[t]

RegistryIdle ==
    /\ NothingScheduled
    /\ \A t \in 1..Len(otherTasks) : ~otherTasks[t]

\* C16: stopScheduler can always be called; when nothing is scheduled it
\* changes nothing; and it leaves a registry in which nothing is scheduled,
\* so that a second call right after the first changes nothing.
C16_StopIdempotent ==
    /\ [](alive => ENABLED StopSchedulerRegistry)
    /\ [](RegistryIdle =>
            ~ENABLED (StopSchedulerRegistry
                        /\ <<tasks, otherTasks>>' # <<tasks, otherTasks>>))
    /\ [][StopSchedulerRegistry => RegistryIdle']_vars

\* stopScheduler has stopped two registered tasks and can be called again
C16_Witness ==
    /\ alive
    /\ Len(tasks) = 2
    /\ RegistryIdle
    /\ otherTasks = <<>>

\* a full URL with a file name, a root-relative path, a bare file name
WellFormed(u) ==
    \/ u.http /\ u.parses /\ u.segs # <<>>
    \/ ~u.http /\ Len(u.segs) >= 2
    \/ Len(u.segs) = 1 /\ ~(u.http /\ u.parses)

\* C17: a full URL, a root-relative path and a bare file name each extract
\* to their final path segment, so that references of the three shapes that
\* end in the same segment extract to the same file name.
C17_ShapesExtractAlike ==
    (extracted # Uncalled /\ WellFormed(url)) => extracted = Basename(url.segs)

\* C18: when new URL() rejects a string that starts with 'http' the
\* extractor returns the basename of the string read as a plain path, and it
\* returns null only for a string that has no path segment at all.
C18_FallsBackToBasename ==
    extracted # Uncalled =>
        /\ (url.http /\ ~url.parses) => extracted = Basename(url.segs)
        /\ extracted = Null => url.segs = <<>>

\* C19: when the listing of a run holds no orphan (only the sentinel is in
\* the directory, or every listed file is referenced) the run ends there:
\* it is done with nothing unlinked and nothing counted, the directory is
\* as it was and isRunning is false; the deletion step is entered only with
\* a non-empty orphan set.
C19_DeletionOnlyForOrphans ==
    [][\A i \in Invocations :
          (frames[i].pc = "readdir" /\ frames'[i].pc \notin {"readdir", "failed"}) =>
              LET listed == GetUploadedFiles(Readdir(disk))
                  orphans == {listed[n] : n \in 1..Len(listed)}
                                \ frames[i].referencedImages
              IN  IF orphans = {}
                  THEN /\ frames'[i].pc = "done"
                       /\ frames'[i].orphanedFiles = <<>>
                       /\ frames'[i].unlinked = {}
                       /\ frames'[i].deletedCount = 0
                       /\ disk' = disk
                       /\ ~isRunning'
                  ELSE /\ frames'[i].pc = "unlink"
                       /\ isRunning']_vars

\* a run found every listed file referenced and ended without a deletion
C19_Witness ==
    \E i \in Invocations :
        /\ frames[i].pc = "done"
        /\ frames[i].uploadedFiles = <<"a.jpg">>
        /\ frames[i].orphanedFiles = <<>>
        /\ frames[i].unlinked = {}
        /\ "a.jpg" \in disk
        /\ ~isRunning

\* C20: the steps of a run are ordered. The run-lock is held at every
\* position at which the run does I/O; until the listing has returned the
\* run has no orphan set and has unlinked nothing; the listing is asked for
\* only after the last query of the scan has returned; and from the
\* deletion step on the orphan set is the one computed from the listing and
\* the scan, and only its files are unlinked.
C20_StepsInOrder ==
    \A i \in Invocations :
        /\ frames[i].pc \in InPipeline => isRunning
        /\ frames[i].pc \in {"connect", "scan", "readdir"} =>
              /\ frames[i].orphanedFiles = <<>>
              /\ frames[i].uploadedFiles = <<>>
              /\ frames[i].unlinked = {}
              /\ frames[i].deletedCount = 0
        /\ frames[i].pc \in {"readdir", "unlink", "done"} => frames[i].k = 0
        /\ frames[i].pc \in {"unlink", "done"} =>
              /\ Range(frames[i].orphanedFiles) =
                    Range(frames[i].uploadedFiles) \ frames[i].referencedImages
              /\ frames[i].unlinked \subseteq Range(frames[i].orphanedFiles)

\* a run is in its deletion step, holding the lock, after a scan that found
\* a reference and a listing that found an orphan
C20_Witness ==
    \E i \in Invocations :
        /\ frames[i].pc = "unlink"
        /\ isRunning
        /\ frames[i].referencedImages = {"a.jpg"}
        /\ frames[i].uploadedFiles = <<"a.jpg", "b.jpg">>
        /\ frames[i].orphanedFiles = <<"b.jpg">>

\* a member of the referenced set that is a file name, not a path
IsBasename(f) == f # RawString(RootRelative(f))

\* C21: every member of a referenced set, of a run or of a preview, is a
\* bare file name without a path separator, whichever field it came from.
C21_ReferencedSetHoldsBasenames ==
    /\ \A i \in Invocations : \A f \in frames[i].referencedImages : IsBasename(f)
    /\ \A f \in preview.referencedImages : IsBasename(f)

\* the step in which the status controller runs for an administrator
StatusHandled ==
    /\ httpResp.pc = "verifyToken"
    /\ httpResp.route = "status"
    /\ httpResp.caller = "Admin"
    /\ httpResp' # httpResp

\* C22: the status response carries the run-lock flag as it is when the
\* controller runs, and schedulerActive is true exactly when a task that
\* startScheduler registered is running.
C22_StatusReportsState ==
    [][StatusHandled =>
            /\ httpResp'.status = 200
            /\ httpResp'.isRunning = isRunning
            /\ httpResp'.schedulerActive = (\E t \in 1..Len(tasks) : tasks[t])]_vars

\* a call of performCleanup() can be recorded
CallSlot == \E i \in Invocations : frames[i].pc \in Settled

\* C23: startScheduler registers one more task whatever is registered
\* already; every running task calls performCleanup() on its own, whether
\* or not a run is in progress; and such a call starts a run when the lock
\* is free and is skipped when it is held.
C23_TwoStartsTwoTriggers ==
    /\ [](Len(tasks) < MaxStarts => ENABLED StartCleanupScheduler)
    /\ [][StartScheduler \/ StartCleanupScheduler =>
            /\ Len(tasks') = Len(tasks) + 1
            /\ \A t \in 1..Len(tasks) : tasks'[t] = tasks[t]
            /\ tasks'[Len(tasks')]]_vars
    /\ [](\A t \in 1..Len(tasks) :
            alive /\ tasks[t] /\ CallSlot => ENABLED ScheduledRun(t))
    /\ [][\A t \in 1..Len(tasks) : ScheduledRun(t) =>
            /\ isRunning'
            /\ frames'[FreeFrame].pc = IF isRunning THEN "skipped" ELSE "connect"
            /\ Cardinality(ActiveOf(frames')) = 1]_vars

\* two tasks are running, the call of one started the run in progress and
\* the call of the other was skipped
C23_Witness ==
    /\ Len(tasks) = 2
    /\ tasks[1] /\ tasks[2]
    /\ \E i \in Invocations : frames[i].pc \in InPipeline
    /\ \E i \in Invocations : frames[i].pc = "skipped"

\* the file the run of invocation i is about to unlink
Pending(i) == frames[i].orphanedFiles[frames[i].idx]

\* C24: the deletion step looks at the orphan list of its run and at
\* nothing else: the unlink of a listed file that is still on disk can
\* succeed whatever the database holds by then, also when a record written
\* after the scan references the file, and a successful unlink removes
\* exactly that file.
C24_StaleReferenceRace ==
    /\ [](\A i \in Invocations :
            (alive /\ frames[i].pc = "unlink" /\ Pending(i) \in disk) =>
                ENABLED (UnlinkReturns(i) /\ disk' = disk \ {Pending(i)}))
    /\ [][\A i \in Invocations :
            (frames[i].pc = "unlink" /\ disk' # disk) =>
                /\ disk' = disk \ {Pending(i)}
                /\ Pending(i) \in frames'[i].unlinked]_vars

\* a record written after the scan references the file the run unlinks next
C24_Witness ==
    \E i \in Invocations :
        /\ alive
        /\ frames[i].pc = "unlink"
        /\ Pending(i) \in disk
        /\ Pending(i) \in FullScan(db)
        /\ Pending(i) \notin frames[i].referencedImages

\* a call that is not a step of the run in progress: stopScheduler,
\* startScheduler, a step of a preview, a trigger of any kind
OutsideCall ==
    \/ StopScheduler
    \/ StartScheduler
    \/ GetOrphanedFilesPreview
    \/ PreviewQueryReturns
    \/ PreviewReaddirReturns
    \/ TriggerManualCleanup
    \/ ManualCleanup
    \/ \E t \in 1..Len(tasks) : ScheduledRun(t)

\* the next step of the run of invocation i can be taken
CanContinue(i) ==
    CASE frames[i].pc = "connect" -> ENABLED ConnectDBReturns(i)
      [] frames[i].pc = "scan"    -> ENABLED QueryReturns(i)
      [] frames[i].pc = "readdir" -> ENABLED ReaddirReturns(i)
      [] frames[i].pc = "unlink"  -> ENABLED UnlinkReturns(i)
      [] OTHER -> TRUE

\* C25: while a run holds the lock, stopScheduler, startScheduler, a
\* preview and a further trigger leave the run's frame, the lock and the
\* directory as they are; the run can take its next step after any of them;
\* and the lock is released only in the step in which the run reaches its
\* end or its error exit.
C25_NoMidRunCancellation ==
    /\ [][(isRunning /\ OutsideCall) =>
            /\ isRunning'
            /\ disk' = disk
            /\ \A i \in Invocations :
                  frames[i].pc \in InPipeline => frames'[i] = frames[i]]_vars
    /\ [](alive => \A i \in Invocations : CanContinue(i))
    /\ [][(isRunning /\ ~isRunning') =>
            \E i \in Invocations :
                /\ frames[i].pc \in InPipeline
                /\ frames'[i].pc \in {"done", "failed"}]_vars

\* the scheduler was started and stopped, a further trigger was skipped and
\* a preview was answered, and the run is at the second file of its list
C25_Witness ==
    /\ alive
    /\ isRunning
    /\ tasks = <<FALSE>>
    /\ previewResp.status = 200
    /\ \E i \in Invocations : frames[i].pc = "skipped"
    /\ \E i \in Invocations : frames[i].pc = "unlink" /\ frames[i].idx = 2

\* the promise of a performCleanup() call: pending while the call is in the
\* pipeline, fulfilled when it was skipped, when it reached its end and when
\* its catch block took the error
Promise(f) ==
    CASE f.pc \in InPipeline -> "pending"
      [] f.pc \in {"skipped", "done", "failed"} -> "fulfilled"
      [] f.pc = "idle" -> "none"
      [] OTHER -> "rejected"

\* C26: no performCleanup() promise is ever rejected, and a call leaves the
\* pipeline only fulfilled, with the lock released.
C26_PromiseNeverRejects ==
    /\ [](\A i \in Invocations : Promise(frames[i]) # "rejected")
    /\ [][\A i \in Invocations :
            (Promise(frames[i]) = "pending" /\ Promise(frames'[i]) # "pending") =>
                /\ Promise(frames'[i]) = "fulfilled"
                /\ ~isRunning']_vars

\* the scan or the directory read of one call failed after another call
\* was skipped: both promises are fulfilled and the lock is free
C26_Witness ==
    /\ alive
    /\ ~isRunning
    /\ \E i \in Invocations : frames[i].pc = "failed"
    /\ \E i \in Invocations : frames[i].pc = "skipped"

\* C27: isRunning is true exactly when one invocation is between taking the
\* lock and its finally block: the flag is never set with no run in
\* progress, and never clear while a pipeline executes.
C27_FlagIffOneRun ==
    isRunning <=> Cardinality(ActiveOf(frames)) = 1

\* a run has deleted a file and reached its end: no invocation is in the
\* pipeline and the flag is clear, so that the next trigger is not skipped
C27_Witness ==
    /\ alive
    /\ ~isRunning
    /\ ActiveOf(frames) = {}
    /\ \E i \in Invocations : frames[i].pc = "done" /\ frames[i].deletedCount > 0

\* C28: every performCleanup invocation that has taken the lock eventually
\* settles, and the lock is eventually free again.
C28_EveryRunSettles ==
    /\ \A i \in Invocations :
          (frames[i].pc \in InPipeline) ~> (frames[i].pc \notin InPipeline)
    /\ isRunning ~> ~isRunning

\* what does hold: a run whose connectDB() call has returned settles
RunSettlesOnceConnected ==
    \A i \in Invocations :
        (frames[i].pc \in {"scan", "readdir", "unlink"}) ~> (frames[i].pc \in Settled /\ ~isRunning)

\* the run of invocation i reached its end and no unlink of it failed
CleanDone(i) == frames[i].pc = "done" /\ frames[i].errors = <<>>

\* no file of the directory is outside the set a scan of the database gives
Converged == Range(GetUploadedFiles(Readdir(disk))) \subseteq FullScan(db)

Running(ts) == {t \in 1..Len(ts) : ts[t]}

\* C30: a startScheduler call made when every task is stopped (as it is
\* after stopScheduler) leaves exactly one running task, the new one; no
\* step sets a stopped task running again; and with one running task one
\* callback, hence one performCleanup() call, is due at a scheduled instant.
C30_OneTriggerAfterRestart ==
    /\ [][(NothingScheduled /\ (StartScheduler \/ StartCleanupScheduler)) =>
            Running(tasks') = {Len(tasks) + 1}]_vars
    /\ [][\A t \in 1..Len(tasks) : ~tasks[t] => ~tasks'[t]]_vars
    /\ [](\A t \in 1..Len(tasks) :
            ENABLED ScheduledRun(t) => t \in Running(tasks))

\* start, stop, start: the first task stays stopped, the second runs and
\* its callback has started a run; no call was skipped
C30_Witness ==
    /\ tasks = <<FALSE, TRUE>>
    /\ isRunning
    /\ \A i \in Invocations : frames[i].pc # "skipped"

====
